---- MODULE Spec2Model ----
(***************************************************************************)
(* Irrigation decision engine of the smart-agriculture backend:            *)
(* RealIrrigationService (backend/src/services/realAnalyticsService.js)    *)
(* and the WeatherService it awaits (backend/src/services/weatherService.js)*)
(*                                                                         *)
(* Numbers.  JavaScript numbers that may be fractional (soil moisture,     *)
(* temperature, humidity, precipitation, the settings thresholds and       *)
(* maxDailyWater) are held in TENTHS as integers: 25.5 is 255.  Values the *)
(* code rounds with Math.round (waterAmount, duration, the soilMoisture of *)
(* a Recommendation, efficiency, the formatted weather temperature) are    *)
(* whole numbers in their own unit.  Arithmetic is exact rational          *)
(* arithmetic; IEEE-754 rounding error of the double products is not       *)
(* modelled.                                                               *)
(***************************************************************************)
EXTENDS Integers, Sequences, FiniteSets, TLC

VARIABLES
    settings,      \* this.settings of RealIrrigationService
    apiKeyDemo,    \* WeatherService.apiKey === 'demo_key'
    pc,            \* position of the getRecommendation call
    sensorData,    \* const sensorData of the pending getRecommendation call
    fetch,         \* the HTTP request getCurrentWeather made for that call
    weatherData,   \* what getCurrentWeather resolved to, once it has
    result,        \* what the last getRecommendation call completed with
    calc,          \* last direct invocation of calculateSmartRecommendation
    irrigationHistory,  \* this.irrigationHistory
    schedules,     \* this.schedules
    settingsAtCall,     \* history variable: this.settings when the last
                        \* getRecommendation call was made
    lastUpdate,    \* response to the last PUT /api/irrigation/settings
    lastStart,     \* response to the last POST /api/irrigation/start
    historyReturned     \* what the last getHistory call returned

\* the service's collections other than settings
storeVars == <<irrigationHistory, schedules>>

\* the responses of the routes other than the recommendation route
responseVars == <<lastUpdate, lastStart, historyReturned>>

vars == <<settings, apiKeyDemo, pc, sensorData, fetch, weatherData, result, calc,
          irrigationHistory, schedules, settingsAtCall,
          lastUpdate, lastStart, historyReturned>>

-----------------------------------------------------------------------------
(* Bounds on the inputs that are enumerated.                               *)

\* soil moistures handed to calculateSmartRecommendation: 15%, 25%, ...
MaxMoistureStep == 3
\* temperatures handed to calculateSmartRecommendation: 24 C, 35 C, ...
MaxTemperatureStep == 1

SoilMoistures == { 150 + 100 * i : i \in 0..MaxMoistureStep }
Temperatures  == { 240 + 110 * i : i \in 0..MaxTemperatureStep }

\* hours of the day read from the wall clock (new Date().getHours())
Hours == {8, 12, 16, 20}

\* an undefined JavaScript value, and a defined number (in tenths)
Undefined == [def |-> FALSE, v |-> 0]
Num(n)    == [def |-> TRUE, v |-> n]

\* x > n in JavaScript: false when x is undefined (undefined converts to NaN)
JsGt(x, n) == x.def /\ x.v > n

Max(a, b) == IF a >= b THEN a ELSE b
Min(a, b) == IF a <= b THEN a ELSE b

\* Math.round of a value given in tenths: the nearest integer, halves up
RoundTenths(x10) == (x10 + 5) \div 10

-----------------------------------------------------------------------------
(* Zone registry and settings store.                                       *)

zones == << [id |-> 1, name |-> "Zone 1 - Vegetables", area |-> 100, soilType |-> "loamy"],
            [id |-> 2, name |-> "Zone 2 - Fruits",     area |-> 150, soilType |-> "clay"],
            [id |-> 3, name |-> "Zone 3 - Herbs",      area |-> 50,  soilType |-> "sandy"] >>

DefaultSettings ==
    [ autoMode             |-> TRUE,
      moistureThreshold    |-> 300,
      temperatureThreshold |-> 300,
      maxDailyWater        |-> 5000,
      conservationMode     |-> FALSE ]

\* request bodies of PUT /api/irrigation/settings that are enumerated
\* (partial records; the route passes req.body through unvalidated)
SettingsUpdates ==
    { [maxDailyWater |-> 5000],
      [maxDailyWater |-> 995],
      [moistureThreshold |-> 300],
      [moistureThreshold |-> 550] }

\* variant: the fields the request does not name fall back to the defaults
updateSettingsReset(old, newSettings) ==
    [ f \in DOMAIN old \cup DOMAIN newSettings |->
        IF f \in DOMAIN newSettings THEN newSettings[f] ELSE DefaultSettings[f] ]

\* { ...this.settings, ...newSettings }
updateSettings(old, newSettings) ==
    [ f \in DOMAIN old \cup DOMAIN newSettings |->
        IF f \in DOMAIN newSettings THEN newSettings[f] ELSE old[f] ]

-----------------------------------------------------------------------------
(* calculateSmartRecommendation and its helpers.                           *)
(* A sensorData record is [soilMoisture, temperature, humidity, soilPH],   *)
(* a weather record (weatherData.current) is [temperature, humidity,       *)
(* precipitation, windSpeed]; all in tenths, precipitation possibly        *)
(* undefined.  lightIntensity and soilTemperature are never read by the    *)
(* engine and are left out.                                                *)

Reason(text, value) == [text |-> text, value |-> value]

LowMoistureText == "Low soil moisture: <v>%"
HeatStressText  == "Heat stress detected: <v>C"
RainText        == "Recent rainfall - irrigation not needed"
LightRainText   == "Light rain - reduced irrigation"
HumidityText    == "High humidity - reduced watering to prevent fungal issues"

\* the locals of calculateSmartRecommendation after their declarations
InitialLocals ==
    [ shouldIrrigate |-> FALSE, priority |-> "low", waterAmount |-> 0,
      duration |-> 0, reasons |-> << >>, nextCheck |-> 2 ]

\* x *= 0.7 and x *= 0.8 on whole numbers; exact for the operand 0, the only
\* value waterAmount and duration hold where the code applies them
TimesTenths(x, k) == (x * k) \div 10

\* variant: the moisture rule always sets priority 'medium'
moistureCheckNoHigh(l, sensor, s) ==
    IF sensor.soilMoisture < s.moistureThreshold
    THEN [l EXCEPT !.shouldIrrigate = TRUE,
                   !.priority = "medium",
                   !.reasons = Append(l.reasons,
                                 Reason(LowMoistureText, RoundTenths(sensor.soilMoisture)))]
    ELSE l

\* Primary soil moisture check
moistureCheck(l, sensor, s) ==
    IF sensor.soilMoisture < s.moistureThreshold
    THEN [l EXCEPT !.shouldIrrigate = TRUE,
                   !.priority = IF sensor.soilMoisture < 200 THEN "high" ELSE "medium",
                   !.reasons = Append(l.reasons,
                                 Reason(LowMoistureText, RoundTenths(sensor.soilMoisture)))]
    ELSE l

\* variant: heat alone triggers irrigation, whatever the soil moisture
temperatureCheckAnyMoisture(l, sensor, s) ==
    IF sensor.temperature > s.temperatureThreshold
    THEN [l EXCEPT !.shouldIrrigate = TRUE,
                   !.priority = "high",
                   !.reasons = Append(l.reasons,
                                 Reason(HeatStressText, RoundTenths(sensor.temperature)))]
    ELSE l

\* Temperature stress check
temperatureCheck(l, sensor, s) ==
    IF sensor.temperature > s.temperatureThreshold /\ sensor.soilMoisture < 400
    THEN [l EXCEPT !.shouldIrrigate = TRUE,
                   !.priority = "high",
                   !.reasons = Append(l.reasons,
                                 Reason(HeatStressText, RoundTenths(sensor.temperature)))]
    ELSE l

\* variant: heavy rain rewrites the reasons but leaves the decision alone
weatherAdjustNoVeto(l, weather) ==
    IF JsGt(weather.precipitation, 50)
    THEN [l EXCEPT !.reasons = << Reason(RainText, 0) >>,
                   !.nextCheck = 6]
    ELSE IF JsGt(weather.precipitation, 20)
    THEN [l EXCEPT !.waterAmount = TimesTenths(l.waterAmount, 7),
                   !.duration = TimesTenths(l.duration, 7),
                   !.reasons = Append(l.reasons, Reason(LightRainText, 0))]
    ELSE l

\* Weather-based adjustments
weatherAdjust(l, weather) ==
    IF JsGt(weather.precipitation, 50)
    THEN [l EXCEPT !.shouldIrrigate = FALSE,
                   !.reasons = << Reason(RainText, 0) >>,
                   !.nextCheck = 6]
    ELSE IF JsGt(weather.precipitation, 20)
    THEN [l EXCEPT !.waterAmount = TimesTenths(l.waterAmount, 7),
                   !.duration = TimesTenths(l.duration, 7),
                   !.reasons = Append(l.reasons, Reason(LightRainText, 0))]
    ELSE l

\* High humidity adjustment
humidityAdjust(l, weather) ==
    IF weather.humidity > 850
    THEN [l EXCEPT !.waterAmount = TimesTenths(l.waterAmount, 8),
                   !.duration = TimesTenths(l.duration, 8),
                   !.reasons = Append(l.reasons, Reason(HumidityText, 0))]
    ELSE l

\* calculateBaseWaterAmount, as the numerator of a fraction over 25000:
\* deficit/10 * 8 * p/10 * max(250, t)/250, capped by maxDailyWater/10
BaseWaterDenominator == 10 * 10 * 250

\* variant: the amount does not grow with the temperature
calculateBaseWaterAmountNoTemp(sensor, priority, s) ==
    LET moistureDeficit == Max(0, 500 - sensor.soilMoisture)
        p               == IF priority = "high" THEN 15
                           ELSE IF priority = "medium" THEN 12 ELSE 10
        baseAmount      == moistureDeficit * 8 * p
    IN  Min(baseAmount * 250, s.maxDailyWater * (BaseWaterDenominator \div 10))

calculateBaseWaterAmount(sensor, priority, s) ==
    LET moistureDeficit == Max(0, 500 - sensor.soilMoisture)
        tempFactor      == Max(250, sensor.temperature)
        p               == IF priority = "high" THEN 15
                           ELSE IF priority = "medium" THEN 12 ELSE 10
        baseAmount      == moistureDeficit * 8 * p
    IN  Min(baseAmount * tempFactor, s.maxDailyWater * (BaseWaterDenominator \div 10))

\* Math.round of n / BaseWaterDenominator
RoundBaseWater(n) == (2 * n + BaseWaterDenominator) \div (2 * BaseWaterDenominator)

\* variant: the amount is computed whether or not the rules decided to irrigate
waterStepUnguarded(l, sensor, s) ==
    LET waterAmount == RoundBaseWater(calculateBaseWaterAmount(sensor, l.priority, s))
    IN  [l EXCEPT !.waterAmount = waterAmount,
                  !.duration = RoundTenths(waterAmount)]

\* Calculate water amount and duration
waterStep(l, sensor, s) ==
    IF l.shouldIrrigate
    THEN LET waterAmount == RoundBaseWater(calculateBaseWaterAmount(sensor, l.priority, s))
         IN  [l EXCEPT !.waterAmount = waterAmount,
                       !.duration = RoundTenths(waterAmount)]
    ELSE l

\* variant: no default zone when neither condition holds
getOptimalZonesNoDefault(sensor) ==
    LET a == IF sensor.soilMoisture < 300 THEN <<1, 2>> ELSE << >>
        b == IF sensor.temperature > 320 THEN a \o <<3>> ELSE a
    IN  b

getOptimalZones(sensor) ==
    LET a == IF sensor.soilMoisture < 300 THEN <<1, 2>> ELSE << >>
        b == IF sensor.temperature > 320 THEN a \o <<3>> ELSE a
    IN  IF Len(b) > 0 THEN b ELSE <<1>>

\* getSmartRecommendations: the type of each advice, in order; hour is the
\* wall-clock hour read when the recommendation irrigates
getSmartRecommendations(sensor, weather, shouldIrrigate, hour) ==
    LET timing == IF shouldIrrigate /\ hour > 10 /\ hour < 16 THEN <<"timing">> ELSE << >>
        soil   == IF sensor.soilPH < 60 THEN <<"soil-low">>
                  ELSE IF sensor.soilPH > 75 THEN <<"soil-high">> ELSE << >>
        wind   == IF weather.windSpeed > 150 THEN <<"weather">> ELSE << >>
        eff    == IF sensor.humidity < 400 THEN <<"efficiency">> ELSE << >>
    IN  timing \o soil \o wind \o eff

\* variant: a larger bonus for the optimal moisture band and no clamp
calculateEfficiencyScoreUnclamped(sensor, weather) ==
    LET m  == IF sensor.soilMoisture > 400 /\ sensor.soilMoisture < 600 THEN 20
              ELSE IF sensor.soilMoisture < 300 \/ sensor.soilMoisture > 700 THEN -15 ELSE 0
        h  == IF weather.humidity > 600 /\ weather.humidity < 800 THEN 5 ELSE 0
        t  == IF weather.temperature > 200 /\ weather.temperature < 280 THEN 5 ELSE 0
    IN  80 + m + h + t

calculateEfficiencyScore(sensor, weather) ==
    LET m  == IF sensor.soilMoisture > 400 /\ sensor.soilMoisture < 600 THEN 10
              ELSE IF sensor.soilMoisture < 300 \/ sensor.soilMoisture > 700 THEN -15 ELSE 0
        h  == IF weather.humidity > 600 /\ weather.humidity < 800 THEN 5 ELSE 0
        t  == IF weather.temperature > 200 /\ weather.temperature < 280 THEN 5 ELSE 0
    IN  Max(20, Min(100, 80 + m + h + t))

\* the object literal calculateSmartRecommendation returns
assemble(l, sensor, weather, hour) ==
    [ shouldIrrigate |-> l.shouldIrrigate,
      soilMoisture   |-> RoundTenths(sensor.soilMoisture),
      priority       |-> l.priority,
      waterAmount    |-> l.waterAmount,
      duration       |-> l.duration,
      reasons        |-> l.reasons,
      nextCheck      |-> l.nextCheck,
      recommendation |-> IF l.shouldIrrigate THEN "Irrigation recommended: <reasons>"
                                              ELSE "No irrigation needed: <reasons>",
      smartRecommendations |-> getSmartRecommendations(sensor, weather, l.shouldIrrigate, hour),
      efficiency     |-> calculateEfficiencyScore(sensor, weather),
      zones          |-> IF l.shouldIrrigate THEN getOptimalZones(sensor) ELSE << >> ]

calculateSmartRecommendation(sensor, weather, s, hour) ==
    LET l1 == moistureCheck(InitialLocals, sensor, s)
        l2 == temperatureCheck(l1, sensor, s)
        l3 == weatherAdjust(l2, weather)
        l4 == humidityAdjust(l3, weather)
        l5 == waterStep(l4, sensor, s)
    IN  assemble(l5, sensor, weather, hour)

\* variant: the fallback irrigates below 40% instead of below 35%
getFallbackRecommendationBelow40(r) ==
    LET soilMoisture   == r + 30
        shouldIrrigate == soilMoisture < 40
    IN  [ shouldIrrigate |-> shouldIrrigate,
          soilMoisture   |-> soilMoisture,
          priority       |-> IF shouldIrrigate THEN "medium" ELSE "low",
          waterAmount    |-> IF shouldIrrigate THEN 150 ELSE 0,
          duration       |-> IF shouldIrrigate THEN 15 ELSE 0,
          reasons        |-> IF shouldIrrigate
                             THEN << Reason("Soil moisture below threshold", 0) >>
                             ELSE << Reason("Soil moisture adequate", 0) >>,
          recommendation |-> IF shouldIrrigate
                             THEN "Irrigation recommended based on soil moisture"
                             ELSE "No irrigation needed - soil moisture adequate",
          nextCheck      |-> 2,
          smartRecommendations |-> << >>,
          efficiency     |-> 75,
          zones          |-> IF shouldIrrigate THEN <<1>> ELSE << >> ]

\* getFallbackRecommendation; r is the draw of Math.random(), in 1/40ths,
\* so that Math.floor(Math.random() * 40) is r
getFallbackRecommendation(r) ==
    LET soilMoisture   == r + 30
        shouldIrrigate == soilMoisture < 35
    IN  [ shouldIrrigate |-> shouldIrrigate,
          soilMoisture   |-> soilMoisture,
          priority       |-> IF shouldIrrigate THEN "medium" ELSE "low",
          waterAmount    |-> IF shouldIrrigate THEN 150 ELSE 0,
          duration       |-> IF shouldIrrigate THEN 15 ELSE 0,
          reasons        |-> IF shouldIrrigate
                             THEN << Reason("Soil moisture below threshold", 0) >>
                             ELSE << Reason("Soil moisture adequate", 0) >>,
          recommendation |-> IF shouldIrrigate
                             THEN "Irrigation recommended based on soil moisture"
                             ELSE "No irrigation needed - soil moisture adequate",
          nextCheck      |-> 2,
          smartRecommendations |-> << >>,
          efficiency     |-> 75,
          zones          |-> IF shouldIrrigate THEN <<1>> ELSE << >> ]

-----------------------------------------------------------------------------
(* WeatherService.                                                         *)

\* draws of Math.random() made by one getMockWeatherData call, in tenths:
\* <<temperature, humidity, precipitation>>
MockDraws == { <<0, 0, 0>>, <<5, 5, 5>>, <<5, 0, 1>> }

Scenarios == {"sunny", "cloudy", "rainy", "hot"}

\* weatherData[scenario] of getMockWeatherData, before rounding
mockScenario(scenario, d) ==
    IF scenario = "sunny"
    THEN [temperature |-> 280 + 4 * d[1], humidity |-> 550 + 15 * d[2],
          windSpeed |-> 20 + 3 * d[1], precipitation |-> 0]
    ELSE IF scenario = "cloudy"
    THEN [temperature |-> 240 + 6 * d[1], humidity |-> 700 + 15 * d[2],
          windSpeed |-> 30 + 4 * d[1], precipitation |-> 0]
    ELSE IF scenario = "rainy"
    THEN [temperature |-> 220 + 4 * d[1], humidity |-> 850 + 10 * d[2],
          windSpeed |-> 40 + 6 * d[1], precipitation |-> 20 + 8 * d[3]]
    ELSE [temperature |-> 350 + 8 * d[1], humidity |-> 400 + 20 * d[2],
          windSpeed |-> 10 + 2 * d[1], precipitation |-> 0]

getMockWeatherData(scenario, d) ==
    LET current == mockScenario(scenario, d)
    IN  [ ready   |-> TRUE,
          source  |-> "mock",
          current |-> [ temperature   |-> 10 * RoundTenths(current.temperature),
                        humidity      |-> 10 * RoundTenths(current.humidity),
                        windSpeed     |-> current.windSpeed,
                        precipitation |-> Num(current.precipitation) ] ]

\* bodies of OpenWeatherMap responses that are enumerated:
\* main.temp, main.humidity, wind.speed (tenths)
LiveResponses ==
    { [temp |-> 224, humidity |-> 700, speed |-> 30],
      [temp |-> 316, humidity |-> 900, speed |-> 200] }

\* formatWeatherData: the current record it builds has no precipitation
formatWeatherData(data) ==
    [ ready   |-> TRUE,
      source  |-> "live",
      current |-> [ temperature   |-> 10 * RoundTenths(data.temp),
                    humidity      |-> data.humidity,
                    windSpeed     |-> data.speed,
                    precipitation |-> Undefined ] ]

NoWeather == [ready |-> FALSE]

\* the ways the HTTP request of getCurrentWeather fails inside its try block:
\* fetch rejects, response.ok is false, the body lacks a field that
\* formatWeatherData dereferences
FetchFailures == {"rejected", "notOk", "malformed"}

\* catch (error) of getCurrentWeather
getCurrentWeatherCatch(scenario, d) == getMockWeatherData(scenario, d)

-----------------------------------------------------------------------------
(* getCurrentSensorData.                                                   *)

\* 1000 * sin(k * 15 degrees), rounded, for k = 0..23 (Math.sin(h * Math.PI / 12));
\* exact at the multiples of 30 and 90 degrees, to three decimals elsewhere
SinTable == << 0, 259, 500, 707, 866, 966, 1000, 966, 866, 707, 500, 259,
               0, -259, -500, -707, -866, -966, -1000, -966, -866, -707, -500, -259 >>

Sin1000(k) == SinTable[(k % 24) + 1]

Clamp(lo, hi, x) == Max(lo, Min(hi, x))

\* draws of Math.random() made by one getCurrentSensorData call, in tenths:
\* <<soilMoisture, temperature, humidity, soilPH>>
SensorDraws == { <<0, 9, 5, 5>>, <<5, 5, 5, 5>>, <<9, 0, 9, 0>> }

getCurrentSensorData(hour, d) ==
    LET baseTemp         == IF hour > 12 THEN 250 + (hour - 12) * 8
                                         ELSE 250 - (12 - hour) * 5
        baseHumidity     == 650 + (Sin1000(hour) * 150) \div 1000
        baseSoilMoisture == 450 + (Sin1000(hour + 6) * 200) \div 1000
    IN  [ soilMoisture |-> Clamp(200, 800, baseSoilMoisture + (d[1] - 5) * 10),
          temperature  |-> Clamp(150, 400, baseTemp + (d[2] - 5) * 5),
          humidity     |-> Clamp(300, 900, baseHumidity + (d[3] - 5) * 10),
          soilPH       |-> 65 + (d[4] - 5) ]

NoSensorData == [soilMoisture |-> 0, temperature |-> 0, humidity |-> 0, soilPH |-> 0]

-----------------------------------------------------------------------------
(* Usage ledger: irrigationHistory, schedules, startIrrigation, getHistory. *)
(* A date is the day number relative to the day the service was            *)
(* constructed (format(date, 'yyyy-MM-dd')); durations are whole minutes.   *)

\* number of manual starts after which no further start is explored
MaxStarts == 2

\* number of entries initializeData pushes (for i = 7 down to 0)
InitialLength == 8

\* draws made by initializeData, as the values of its four Math.floor
\* expressions for each loop index i:
\* <<waterUsed - 100, duration - 15, efficiency - 80, savings - 5>>
InitialDraws ==
    { [ i \in 0..(InitialLength - 1) |-> << (i * 37) % 200, (i * 7) % 30, (i * 3) % 20, (i * 5) % 15 >> ] }

\* the entry initializeData pushes for loop index i
initialEntry(i, d) ==
    [ date       |-> 0 - i,
      waterUsed  |-> d[i][1] + 100,
      duration   |-> d[i][2] + 15,
      zones      |-> <<1, 2>>,
      efficiency |-> d[i][3] + 80,
      reason     |-> IF i > 5 THEN "scheduled" ELSE "sensor_triggered",
      savings    |-> d[i][4] + 5 ]

\* the history after initializeData: i runs from 7 down to 0
initializeData(d) == [ k \in 1..InitialLength |-> initialEntry(InitialLength - k, d) ]

InitialSchedules ==
    << [id |-> 1, time |-> "06:00", zones |-> <<1, 2, 3>>, duration |-> 20,
        status |-> "completed", waterUsed |-> 85, efficiency |-> 92],
       [id |-> 2, time |-> "14:00", zones |-> <<1, 3>>, duration |-> 15,
        status |-> "scheduled", waterUsed |-> 0, efficiency |-> 0],
       [id |-> 3, time |-> "18:00", zones |-> <<2>>, duration |-> 25,
        status |-> "pending", waterUsed |-> 0, efficiency |-> 0] >>

\* Array.prototype.slice(start) with one argument
slice(seq, start) ==
    LET from == IF start < 0 THEN Max(Len(seq) + start, 0) ELSE Min(start, Len(seq))
    IN  SubSeq(seq, from + 1, Len(seq))

\* getHistory(days): this.irrigationHistory.slice(-days)
getHistory(history, days) == slice(history, 0 - days)

\* a query parameter or body member that may be missing
Absent     == [def |-> FALSE, v |-> 0]
Present(x) == [def |-> TRUE, v |-> x]

\* parseInt(req.query.days) || 7: a missing or non-numeric parameter parses
\* to NaN, and NaN and 0 are falsy
parseDays(q) == IF q.def /\ q.v # 0 THEN q.v ELSE 7

\* variant: the amount does not count the zones
startWaterAmountPerCall(zs, duration) == duration * 10

\* const waterAmount = zones.length * duration * 10
startWaterAmount(zs, duration) == Len(zs) * duration * 10

\* the entry startIrrigation pushes; e is Math.floor(Math.random() * 15)
startEntry(zs, duration, e) ==
    [ date       |-> 0,
      waterUsed  |-> startWaterAmount(zs, duration),
      duration   |-> duration,
      zones      |-> zs,
      efficiency |-> e + 85,
      reason     |-> "manual",
      savings    |-> 0 ]

\* variant: the new entry is put at the front
historyUnshift(history, entry) == <<entry>> \o history

\* this.irrigationHistory.push(entry)
historyPush(history, entry) == Append(history, entry)

\* the object startIrrigation returns, as the route sends it (message and
\* estimatedCompletion, a text and a wall-clock time, are left out)
startReturn(zs, duration) ==
    [ status |-> 200, success |-> TRUE,
      waterAmount |-> startWaterAmount(zs, duration), duration |-> duration ]

\* res.status(400).json({ error: 'Missing zones or duration' })
BadRequest == [status |-> 400, success |-> FALSE, waterAmount |-> 0, duration |-> 0]

NoResponse == [status |-> 0]

\* no getRecommendation call has been made
NoCall == [pending |-> FALSE]

-----------------------------------------------------------------------------
(* getRecommendation, as the steps between which other handlers can run.   *)

NoResult == [completed |-> FALSE]
NoCalc   == [valid |-> FALSE]

\* the object getRecommendation returns from its try block
normalReturn(recommendation, sensor, weather) ==
    [ f \in DOMAIN recommendation \cup {"sensorData", "weatherConditions"} |->
        IF f = "sensorData" THEN sensor
        ELSE IF f = "weatherConditions"
        THEN [ temperature   |-> weather.current.temperature,
               humidity      |-> weather.current.humidity,
               precipitation |-> weather.current.precipitation,
               windSpeed     |-> weather.current.windSpeed ]
        ELSE recommendation[f] ]

\* variant: the catch of getRecommendation rethrows, the call rejects
getRecommendationRethrow(r) == [thrown |-> TRUE]

\* catch (error) of getRecommendation
getRecommendationCatch(r) == getFallbackRecommendation(r)

\* values of Math.floor(Math.random() * 40)
FallbackDraws == 0..39

Init ==
    /\ settings = DefaultSettings
    /\ apiKeyDemo \in BOOLEAN
    /\ pc = "idle"
    /\ sensorData = NoSensorData
    /\ fetch = "none"
    /\ weatherData = NoWeather
    /\ result = NoResult
    /\ calc = NoCalc
    /\ \E d \in InitialDraws : irrigationHistory = initializeData(d)
    /\ schedules = InitialSchedules
    /\ settingsAtCall = NoCall
    /\ lastUpdate = NoResponse
    /\ lastStart = NoResponse
    /\ historyReturned = << >>

\* PUT /api/irrigation/settings -> updateSettings(req.body)
\* and res.json(settings) with the record updateSettings returned
UpdateSettingsWith(newSettings) ==
    /\ settings' = updateSettings(settings, newSettings)
    /\ lastUpdate' = [status |-> 200, body |-> settings']
    /\ UNCHANGED <<apiKeyDemo, pc, sensorData, fetch, weatherData, result, calc>>
    /\ UNCHANGED <<storeVars, settingsAtCall, lastStart, historyReturned>>

UpdateSettings ==
    \E newSettings \in SettingsUpdates : UpdateSettingsWith(newSettings)

\* getRecommendation up to its await, with the demo key: getCurrentWeather
\* returns mock data without a request
RecStartDemo ==
    /\ pc \in {"idle", "done"}
    /\ apiKeyDemo
    /\ \E hour \in Hours, sd \in SensorDraws, scenario \in Scenarios, md \in MockDraws :
        /\ sensorData' = getCurrentSensorData(hour, sd)
        /\ weatherData' = getMockWeatherData(scenario, md)
    /\ fetch' = "none"
    /\ pc' = "awaitWeather"
    /\ result' = NoResult
    /\ settingsAtCall' = settings
    /\ UNCHANGED <<settings, apiKeyDemo, calc>>
    /\ UNCHANGED <<storeVars, responseVars>>

\* getRecommendation up to its await, with a real key: getCurrentWeather
\* issues fetch(url) and awaits the response
RecStartFetch ==
    /\ pc \in {"idle", "done"}
    /\ ~apiKeyDemo
    /\ \E hour \in Hours, sd \in SensorDraws :
        sensorData' = getCurrentSensorData(hour, sd)
    /\ weatherData' = NoWeather
    /\ fetch' = "pending"
    /\ pc' = "awaitWeather"
    /\ result' = NoResult
    /\ settingsAtCall' = settings
    /\ UNCHANGED <<settings, apiKeyDemo, calc>>
    /\ UNCHANGED <<storeVars, responseVars>>

\* the response arrives with response.ok and a well-formed body
FetchOk ==
    /\ fetch = "pending"
    /\ \E data \in LiveResponses : weatherData' = formatWeatherData(data)
    /\ fetch' = "ok"
    /\ UNCHANGED <<settings, apiKeyDemo, pc, sensorData, result, calc>>
    /\ UNCHANGED <<storeVars, settingsAtCall, responseVars>>

\* the request fails: the catch of getCurrentWeather returns mock data
FetchFail ==
    /\ fetch = "pending"
    /\ \E failure \in FetchFailures, scenario \in Scenarios, md \in MockDraws :
        /\ fetch' = failure
        /\ weatherData' = getCurrentWeatherCatch(scenario, md)
    /\ UNCHANGED <<settings, apiKeyDemo, pc, sensorData, result, calc>>
    /\ UNCHANGED <<storeVars, settingsAtCall, responseVars>>

\* the provider never answers the request: fetch(url) has no timeout or
\* abort signal, so its promise stays pending
FetchHang ==
    /\ fetch = "pending"
    /\ fetch' = "hung"
    /\ UNCHANGED <<settings, apiKeyDemo, pc, sensorData, weatherData, result, calc>>
    /\ UNCHANGED <<storeVars, settingsAtCall, responseVars>>

\* variant: the moisture threshold is the one read when the call was made,
\* the other settings are read after the await
RecResumeTornRead ==
    /\ pc = "awaitWeather"
    /\ weatherData.ready
    /\ \E hour \in Hours :
        result' = normalReturn(
                    calculateSmartRecommendation(sensorData, weatherData.current,
                        [settings EXCEPT !.moistureThreshold = settingsAtCall.moistureThreshold],
                        hour),
                    sensorData, weatherData)
    /\ pc' = "done"
    /\ sensorData' = NoSensorData
    /\ weatherData' = NoWeather
    /\ UNCHANGED <<settings, apiKeyDemo, fetch, calc>>
    /\ UNCHANGED <<storeVars, settingsAtCall, responseVars>>

\* the continuation after the await: calculateSmartRecommendation and return
\* (the locals sensorData and weatherData go out of scope)
RecResume ==
    /\ pc = "awaitWeather"
    /\ weatherData.ready
    /\ \E hour \in Hours :
        result' = normalReturn(
                    calculateSmartRecommendation(sensorData, weatherData.current, settings, hour),
                    sensorData, weatherData)
    /\ pc' = "done"
    /\ sensorData' = NoSensorData
    /\ weatherData' = NoWeather
    /\ UNCHANGED <<settings, apiKeyDemo, fetch, calc>>
    /\ UNCHANGED <<storeVars, settingsAtCall, responseVars>>

\* an exception raised inside the try block of getRecommendation: control
\* passes to its catch, which returns getFallbackRecommendation().  A failed
\* weather request is not such an exception (getCurrentWeather catches it
\* itself, see FetchFail); the action stands for whatever else the runtime
\* raises in the block, which is all the catch is left to handle.
\* (variant first: a call that falls back also switches automatic mode off)
RecCatchDisablesAuto ==
    /\ pc = "awaitWeather"
    /\ weatherData.ready
    /\ \E r \in FallbackDraws : result' = getRecommendationCatch(r)
    /\ pc' = "done"
    /\ sensorData' = NoSensorData
    /\ weatherData' = NoWeather
    /\ settings' = [settings EXCEPT !.autoMode = FALSE]
    /\ UNCHANGED <<apiKeyDemo, fetch, calc>>
    /\ UNCHANGED <<storeVars, settingsAtCall, responseVars>>

RecCatch ==
    /\ pc = "awaitWeather"
    /\ weatherData.ready
    /\ \E r \in FallbackDraws : result' = getRecommendationCatch(r)
    /\ pc' = "done"
    /\ sensorData' = NoSensorData
    /\ weatherData' = NoWeather
    /\ UNCHANGED <<settings, apiKeyDemo, fetch, calc>>
    /\ UNCHANGED <<storeVars, settingsAtCall, responseVars>>

Next ==
    \/ UpdateSettings
    \/ RecStartDemo
    \/ RecStartFetch
    \/ FetchOk
    \/ FetchFail
    \/ FetchHang
    \/ RecResume
    \/ RecCatch

Spec == Init /\ [][Next]_vars

\* the event loop runs every continuation that is ready, and a provider that
\* has not hung answers; nothing obliges a hung request to complete
FairSpec ==
    /\ Spec
    /\ WF_vars(RecStartDemo) /\ WF_vars(RecStartFetch)
    /\ WF_vars(FetchOk \/ FetchFail \/ FetchHang)
    /\ WF_vars(RecResume \/ RecCatch)

-----------------------------------------------------------------------------
(* calculateSmartRecommendation invoked directly on enumerated inputs.     *)

\* a soil moisture whose water amount rounds to 105 L, so that the duration
\* is the rounding of a half (39.1%)
HalfwayMoistures == {391}

\* a soil moisture above the 50% target of calculateBaseWaterAmount (52%)
AboveTargetMoistures == {520}

CalcSensors ==
    { [soilMoisture |-> m, temperature |-> t, humidity |-> 650, soilPH |-> 65] :
        m \in SoilMoistures \cup HalfwayMoistures \cup AboveTargetMoistures,
        t \in Temperatures }

CalcWeathers ==
    { [temperature |-> 250, humidity |-> h, precipitation |-> p, windSpeed |-> 30] :
        h \in {700, 900}, p \in {Undefined, Num(0), Num(30), Num(80)} }

\* wall-clock hours at which it is invoked
CalcHours == {8, 12}

CallCalculate ==
    \E sensor \in CalcSensors, weather \in CalcWeathers, hour \in CalcHours :
        /\ calc' = [ valid |-> TRUE,
                     in    |-> [sensorData |-> sensor, weatherData |-> weather,
                                settings |-> settings, zones |-> zones],
                     out   |-> calculateSmartRecommendation(sensor, weather, settings, hour) ]
        /\ UNCHANGED <<settings, apiKeyDemo, pc, sensorData, fetch, weatherData, result>>
        /\ UNCHANGED <<storeVars, settingsAtCall, responseVars>>

NextCalc ==
    \/ UpdateSettings
    \/ CallCalculate

SpecCalc == Init /\ [][NextCalc]_vars

-----------------------------------------------------------------------------
(* The ledger routes.                                                      *)

\* request bodies of POST /api/irrigation/start that are enumerated; a
\* duration of 0 stands for a missing one as well (both are falsy)
StartBodies ==
    { [hasZones |-> h, zones |-> zs, duration |-> d] :
        h \in BOOLEAN, zs \in { << >>, <<1, 2>>, <<9>> }, d \in {0, 15, 20} }

\* values of Math.floor(Math.random() * 15) in startIrrigation
StartEfficiencyDraws == {0, 14}

\* POST /api/irrigation/start: the 400 check, then startIrrigation, which
\* contains no await and so runs to its return in one turn
StartIrrigationWith(body) ==
    /\ IF ~body.hasZones \/ body.duration = 0
       THEN /\ lastStart' = BadRequest
            /\ UNCHANGED irrigationHistory
       ELSE /\ Len(irrigationHistory) < InitialLength + MaxStarts
            /\ \E e \in StartEfficiencyDraws :
                 irrigationHistory' =
                     historyPush(irrigationHistory, startEntry(body.zones, body.duration, e))
            /\ lastStart' = startReturn(body.zones, body.duration)
    /\ UNCHANGED <<settings, apiKeyDemo, pc, sensorData, fetch, weatherData, result, calc>>
    /\ UNCHANGED <<schedules, settingsAtCall, lastUpdate, historyReturned>>

StartIrrigation == \E body \in StartBodies : StartIrrigationWith(body)

\* values of days with which getHistory is invoked directly
HistoryDays == {0, 3, 9}

\* getHistory(days)
GetHistoryWith(days) ==
    /\ historyReturned' = getHistory(irrigationHistory, days)
    /\ UNCHANGED <<settings, apiKeyDemo, pc, sensorData, fetch, weatherData, result, calc>>
    /\ UNCHANGED <<storeVars, settingsAtCall, lastUpdate, lastStart>>

GetHistoryCall == \E days \in HistoryDays : GetHistoryWith(days)

\* values of req.query.days that are enumerated
HistoryQueries == { Absent, Present(0), Present(3) }

\* GET /api/irrigation/history
GetHistoryRoute == \E q \in HistoryQueries : GetHistoryWith(parseDays(q))

NextLedger ==
    \/ StartIrrigation
    \/ GetHistoryCall
    \/ GetHistoryRoute

SpecLedger == Init /\ [][NextLedger]_vars

-----------------------------------------------------------------------------
(* The settings route on a wider set of request bodies.                    *)

AllSettingsUpdates ==
    SettingsUpdates \cup
    { [maxDailyWater |-> 0],
      [maxDailyWater |-> 0 - 500],
      [temperatureThreshold |-> 200],
      [temperatureThreshold |-> 300],
      [autoMode |-> FALSE],
      [conservationMode |-> TRUE],
      [moistureThreshold |-> 250, maxDailyWater |-> 3000],
      [units |-> "gallons"] }

UpdateSettingsAny ==
    \E newSettings \in AllSettingsUpdates : UpdateSettingsWith(newSettings)

NextSettings == UpdateSettingsAny

SpecSettings == Init /\ [][NextSettings]_vars

-----------------------------------------------------------------------------
(* Properties.                                                             *)

RecommendationFields ==
    { "shouldIrrigate", "soilMoisture", "priority", "waterAmount", "duration",
      "reasons", "nextCheck", "recommendation", "smartRecommendations",
      "efficiency", "zones" }

\* r is a Recommendation value
IsRecommendation(r) == RecommendationFields \subseteq DOMAIN r

\* r was returned by the try block of getRecommendation (it carries the
\* sensorData and weatherConditions the fallback object does not have)
IsNormal(r) == IsRecommendation(r) /\ "sensorData" \in DOMAIN r

\* r is the object getFallbackRecommendation builds
IsFallback(r) == IsRecommendation(r) /\ "sensorData" \notin DOMAIN r

\* the getRecommendation call has completed
Completed == pc = "done"

\* C1: every Recommendation getRecommendation returns, on the normal or the
\* fallback path, that does not irrigate has waterAmount 0, duration 0 and
\* no zones.
NoIrrigationMeansNoWater ==
    (Completed /\ IsRecommendation(result) /\ ~result.shouldIrrigate)
        => /\ result.waterAmount = 0
           /\ result.duration = 0
           /\ result.zones = << >>

\* a normal-path Recommendation that does not irrigate although the soil is
\* below the 50% target, so that a water amount would be computed for it
NoIrrigationWitness ==
    /\ Completed
    /\ IsNormal(result)
    /\ ~result.shouldIrrigate
    /\ result.sensorData.soilMoisture < 500

\* C2: for every input and every positive maxDailyWater, whole or
\* fractional, the rounded waterAmount of calculateSmartRecommendation is at
\* most settings.maxDailyWater.
WaterWithinDailyMax ==
    (calc.valid /\ calc.in.settings.maxDailyWater > 0)
        => calc.out.waterAmount * 10 <= calc.in.settings.maxDailyWater

\* C3: a Recommendation produced by the fallback path has waterAmount at
\* most the maxDailyWater held in settings when it is returned.
FallbackWithinDailyMax ==
    [][ (pc # "done" /\ pc' = "done" /\ IsFallback(result'))
          => result'.waterAmount * 10 <= settings'.maxDailyWater ]_vars

\* C4: whenever precipitation is above 5, calculateSmartRecommendation
\* returns shouldIrrigate = false, whatever rules fired before.
RainVetoesIrrigation ==
    (calc.valid /\ JsGt(calc.in.weatherData.precipitation, 50))
        => ~calc.out.shouldIrrigate

\* heavy rain on a call in which the low-moisture rule and the heat-stress
\* rule both fired
RainVetoWitness ==
    /\ calc.valid
    /\ JsGt(calc.in.weatherData.precipitation, 50)
    /\ calc.in.sensorData.soilMoisture < calc.in.settings.moistureThreshold
    /\ calc.in.sensorData.temperature > calc.in.settings.temperatureThreshold
    /\ calc.in.sensorData.soilMoisture < 400
    /\ ~calc.out.shouldIrrigate

\* C5: with precipitation above 5 the reasons are exactly the one rainfall
\* reason and nextCheck is 6, whatever the other inputs; with precipitation
\* at most 5 nextCheck is 2.
RainReasonsExact ==
    calc.valid =>
        IF JsGt(calc.in.weatherData.precipitation, 50)
        THEN /\ calc.out.reasons = << Reason(RainText, 0) >>
             /\ calc.out.nextCheck = 6
        ELSE calc.out.nextCheck = 2

\* C6: two invocations of calculateSmartRecommendation with identical
\* telemetry, weather, settings and zones return identical values, whatever
\* the wall-clock time and whatever ran in between.
RecommendDeterministic ==
    [][ (calc.valid /\ calc'.valid /\ calc'.in = calc.in) => calc'.out = calc.out ]_vars

\* C7: a completed getRecommendation call yields a Recommendation value,
\* whatever the weather provider did and whatever was thrown on the way.
NeverThrows ==
    Completed => IsRecommendation(result)

\* a call whose weather request failed and in which an exception was then
\* raised inside the try block
NeverThrowsWitness ==
    /\ Completed
    /\ fetch \in FetchFailures
    /\ IsFallback(result)

\* C8: if the weather request is rejected or answered with a non-OK status,
\* getRecommendation returns the fallback Recommendation and not one computed
\* by the rules.
ProviderFailureGivesFallback ==
    (Completed /\ fetch \in {"rejected", "notOk"})
        => /\ IsFallback(result)
           /\ result.efficiency = 75
           /\ result.nextCheck = 2
           /\ result.waterAmount \in {0, 150}

\* C9: every getRecommendation call eventually completes with a
\* Recommendation, also when the weather provider never responds.
CallEventuallyCompletes ==
    (pc = "awaitWeather") ~> (Completed /\ IsRecommendation(result))

\* C10: the fallback Recommendation is determined by its own integer
\* moisture m in [30, 70): it irrigates iff m < 35, with 150 litres for 15
\* minutes, efficiency 75 and nextCheck 2; nothing else enters it.
FallbackShape ==
    (Completed /\ IsFallback(result)) =>
        /\ result.soilMoisture \in 30..69
        /\ result.shouldIrrigate = (result.soilMoisture < 35)
        /\ result.waterAmount = IF result.shouldIrrigate THEN 150 ELSE 0
        /\ result.duration = IF result.shouldIrrigate THEN 15 ELSE 0
        /\ result.efficiency = 75
        /\ result.nextCheck = 2

\* a fallback that irrigates, returned while the settings cap the day at
\* 99.5 litres and put the moisture threshold at 55%
FallbackShapeWitness ==
    /\ Completed
    /\ IsFallback(result)
    /\ result.shouldIrrigate
    /\ settings.maxDailyWater = 995
    /\ settings.moistureThreshold = 550

\* the request body passes the 400 check of POST /api/irrigation/start
Accepted(body) == body.hasZones /\ body.duration # 0

\* the ids of the zone registry
ZoneIds == { zones[i].id : i \in DOMAIN zones }

Last(seq) == seq[Len(seq)]

\* C11: startIrrigation(zones, duration) returns waterAmount = number of
\* zones x duration x 10 and appends exactly one entry with reason 'manual',
\* that waterUsed, and the duration and zones of the call.
StartAppendsManualEntry ==
    [][ \A body \in StartBodies :
          (Accepted(body) /\ StartIrrigationWith(body)) =>
            LET w == Len(body.zones) * body.duration * 10
            IN  /\ lastStart'.waterAmount = w
                /\ Len(irrigationHistory') = Len(irrigationHistory) + 1
                /\ SubSeq(irrigationHistory', 1, Len(irrigationHistory)) = irrigationHistory
                /\ Last(irrigationHistory').reason = "manual"
                /\ Last(irrigationHistory').waterUsed = w
                /\ Last(irrigationHistory').duration = body.duration
                /\ Last(irrigationHistory').zones = body.zones ]_vars

\* startIrrigation([1,2], 20) has returned 400 and its entry is the last one
StartWitness ==
    /\ lastStart.status = 200
    /\ lastStart.waterAmount = 400
    /\ Len(irrigationHistory) > InitialLength
    /\ Last(irrigationHistory).zones = <<1, 2>>
    /\ Last(irrigationHistory).duration = 20
    /\ Last(irrigationHistory).waterUsed = 400
    /\ Last(irrigationHistory).reason = "manual"

\* C12: a start request naming a zone id that is not in the registry is
\* rejected and leaves the history unchanged.
UnknownZoneRejected ==
    [][ \A body \in StartBodies :
          ( /\ Accepted(body)
            /\ \E i \in DOMAIN body.zones : body.zones[i] \notin ZoneIds
            /\ StartIrrigationWith(body) )
          => /\ irrigationHistory' = irrigationHistory
             /\ ~lastStart'.success ]_vars

\* C13: an update with a maxDailyWater that is not positive is rejected and
\* leaves the stored settings as they were.
InvalidSettingsRejected ==
    [][ \A p \in AllSettingsUpdates :
          ( /\ "maxDailyWater" \in DOMAIN p
            /\ p.maxDailyWater <= 0
            /\ UpdateSettingsWith(p) )
          => /\ settings' = settings
             /\ lastUpdate'.status # 200 ]_vars

\* C14: updateSettings(partial) gives every field named in partial the value
\* from partial, leaves every other field as it was, and returns the record
\* the store holds after the call.
SettingsMergeFieldwise ==
    [][ \A p \in AllSettingsUpdates :
          UpdateSettingsWith(p) =>
            /\ \A f \in DOMAIN p : f \in DOMAIN settings' /\ settings'[f] = p[f]
            /\ \A f \in DOMAIN settings \ DOMAIN p :
                 f \in DOMAIN settings' /\ settings'[f] = settings[f]
            /\ lastUpdate'.body = settings' ]_vars

\* two partial updates have been merged: the second kept what the first set
SettingsMergeWitness ==
    /\ lastUpdate.status = 200
    /\ lastUpdate.body = settings
    /\ settings.maxDailyWater = 995
    /\ settings.moistureThreshold = 550
    /\ settings.autoMode = FALSE

\* the last k entries of seq
LastEntries(seq, k) == SubSeq(seq, Len(seq) - k + 1, Len(seq))

\* C15: for every days >= 0, getHistory(days) returns the last min(days, n)
\* entries of the history, in the order they were appended.
HistoryReturnsLastDays ==
    [][ \A days \in HistoryDays :
          GetHistoryWith(days) =>
            historyReturned' =
                LastEntries(irrigationHistory, Min(days, Len(irrigationHistory))) ]_vars

\* C16: the history only grows at its end: it starts with the initial
\* entries, every entry after them is a manual one, each accepted start adds
\* exactly one entry, and no step changes or moves an entry already there.
HistoryAppendOnly ==
    /\ [] ( /\ Len(irrigationHistory) >= InitialLength
            /\ \E d \in InitialDraws :
                 SubSeq(irrigationHistory, 1, InitialLength) = initializeData(d)
            /\ \A i \in (InitialLength + 1)..Len(irrigationHistory) :
                 irrigationHistory[i].reason = "manual" )
    /\ [][ /\ irrigationHistory' # irrigationHistory =>
                /\ Len(irrigationHistory') = Len(irrigationHistory) + 1
                /\ SubSeq(irrigationHistory', 1, Len(irrigationHistory)) = irrigationHistory
                /\ \E body \in StartBodies : Accepted(body) /\ StartIrrigationWith(body)
           /\ \A body \in StartBodies :
                (Accepted(body) /\ StartIrrigationWith(body)) =>
                    Len(irrigationHistory') = Len(irrigationHistory) + 1 ]_vars

\* two starts have completed and left two different entries after the
\* initial ones
HistoryAppendWitness ==
    /\ Len(irrigationHistory) = InitialLength + 2
    /\ irrigationHistory[InitialLength + 1] # irrigationHistory[InitialLength + 2]
    /\ irrigationHistory[InitialLength + 2].zones = <<1, 2>>

\* a step of a getRecommendation call
RecStep ==
    \/ RecStartDemo \/ RecStartFetch
    \/ FetchOk \/ FetchFail \/ FetchHang
    \/ RecResume \/ RecCatch

\* C17: no step of a getRecommendation call, whether the call completes
\* normally, completes with the fallback or stays pending, changes the
\* settings, the history or the schedules: a step that changes one of them
\* is not a step of the call (the zone registry is never assigned by any
\* code).
RecommendationHasNoSideEffects ==
    [][ ~ UNCHANGED <<settings, irrigationHistory, schedules>> => ~ RecStep ]_vars

\* a normal-path call that recommended irrigation has completed
NoSideEffectsWitness ==
    /\ Completed
    /\ IsNormal(result)
    /\ result.shouldIrrigate
    /\ result.waterAmount > 0

\* C18: the recommendation a call returns is computed from one whole
\* settings record, the one held when the call was made or the one held
\* when it resumes, never from fields of both.
SettingsReadWhole ==
    [][ RecResume =>
          \E s \in {settingsAtCall, settings}, hour \in Hours :
              result' = normalReturn(
                          calculateSmartRecommendation(sensorData, weatherData.current, s, hour),
                          sensorData, weatherData) ]_vars

\* a call has completed normally after both the moisture threshold and the
\* daily maximum were changed while it waited
SettingsReadWitness ==
    /\ Completed
    /\ IsNormal(result)
    /\ settingsAtCall # NoCall
    /\ settingsAtCall.moistureThreshold # settings.moistureThreshold
    /\ settingsAtCall.maxDailyWater # settings.maxDailyWater
    /\ lastUpdate.status = 200

\* C19: the efficiency of every Recommendation, normal or fallback, is an
\* integer from 20 to 100.
EfficiencyInRange ==
    (Completed /\ IsRecommendation(result)) => result.efficiency \in 20..100

\* a normal-path Recommendation with every bonus: the top of the range
EfficiencyWitness ==
    /\ Completed
    /\ IsNormal(result)
    /\ result.efficiency = 100

\* the amount the rain and humidity multipliers would give: the numerator of
\* baseAmount x tempFactor (over BaseWaterDenominator) times 0.7 and 0.8 as
\* fiftieths, capped by maxDailyWater and rounded
ScaledWaterAmount(sensor, priority, s, weather) ==
    LET moistureDeficit == Max(0, 500 - sensor.soilMoisture)
        tempFactor      == Max(250, sensor.temperature)
        p               == IF priority = "high" THEN 15
                           ELSE IF priority = "medium" THEN 12 ELSE 10
        rain            == JsGt(weather.precipitation, 20) /\ ~JsGt(weather.precipitation, 50)
        humid           == weather.humidity > 850
        fiftieths       == IF rain /\ humid THEN 28
                           ELSE IF rain THEN 35 ELSE IF humid THEN 40 ELSE 50
        d               == BaseWaterDenominator * 50
        n               == Min(moistureDeficit * 8 * p * tempFactor * fiftieths,
                               s.maxDailyWater * (d \div 10))
    IN  (2 * n + d) \div (2 * d)

\* C20: when the recommendation irrigates, light rain scales the amount by
\* 0.7, high humidity by 0.8, both by 0.56: waterAmount =
\* round(min(baseAmount x tempFactor x multipliers, maxDailyWater)).
RainAndHumidityScaleWater ==
    ( /\ calc.valid
      /\ calc.out.shouldIrrigate
      /\ \/ JsGt(calc.in.weatherData.precipitation, 20)
         \/ calc.in.weatherData.humidity > 850 )
    => /\ calc.out.waterAmount =
            ScaledWaterAmount(calc.in.sensorData, calc.out.priority,
                              calc.in.settings, calc.in.weatherData)
       /\ calc.out.duration = RoundTenths(calc.out.waterAmount)

\* the two rules of calculateSmartRecommendation as conditions on a call
MoistureRule(in) == in.sensorData.soilMoisture < in.settings.moistureThreshold

HeatRule(in) ==
    /\ in.sensorData.temperature > in.settings.temperatureThreshold
    /\ in.sensorData.soilMoisture < 400

\* C21: calculateSmartRecommendation returns shouldIrrigate = true exactly
\* when precipitation is not above 5 and the moisture rule or the heat-stress
\* rule fires; with soilMoisture >= 40 and >= moistureThreshold it returns
\* false for every temperature.
IrrigateExactlyWhenRuleFires ==
    calc.valid =>
        /\ calc.out.shouldIrrigate <=>
              /\ ~JsGt(calc.in.weatherData.precipitation, 50)
              /\ MoistureRule(calc.in) \/ HeatRule(calc.in)
        /\ ( /\ calc.in.sensorData.soilMoisture >= 400
             /\ calc.in.sensorData.soilMoisture >= calc.in.settings.moistureThreshold )
           => ~calc.out.shouldIrrigate

\* moisture 45%, temperature 35 C above the threshold, no rain: the heat
\* branch does not fire and the call does not irrigate
HotButMoistWitness ==
    /\ calc.valid
    /\ calc.in.sensorData.soilMoisture = 450
    /\ calc.in.sensorData.temperature > calc.in.settings.temperatureThreshold
    /\ calc.in.settings.moistureThreshold = 300
    /\ ~JsGt(calc.in.weatherData.precipitation, 50)
    /\ ~calc.out.shouldIrrigate

\* C22: priority is 'high' when the heat-stress rule fires or the moisture
\* rule fires below 20%, 'medium' when the moisture rule fires at 20% or
\* above without heat stress, otherwise 'low'; the heat-stress rule never
\* lowers what the moisture rule set.
PriorityByRule ==
    calc.valid =>
        calc.out.priority =
            IF HeatRule(calc.in) THEN "high"
            ELSE IF MoistureRule(calc.in)
                 THEN IF calc.in.sensorData.soilMoisture < 200 THEN "high" ELSE "medium"
                 ELSE "low"

\* the moisture rule alone gave 'high' (15%, no heat stress)
PriorityWitness ==
    /\ calc.valid
    /\ calc.in.sensorData.soilMoisture < 200
    /\ MoistureRule(calc.in)
    /\ ~HeatRule(calc.in)
    /\ calc.out.priority = "high"
    /\ calc.out.shouldIrrigate

\* round(min(max(0, 50 - soilMoisture) x 8 x p x max(1, temperature / 25),
\* maxDailyWater)), all operands in tenths: the quotient by 25000, halves up
ClaimedWaterAmount(in, priority) ==
    LET deficit == Max(0, 500 - in.sensorData.soilMoisture)
        p       == IF priority = "high" THEN 15 ELSE IF priority = "medium" THEN 12 ELSE 10
        factor  == Max(250, in.sensorData.temperature)
        capped  == Min(deficit * 8 * p * factor, in.settings.maxDailyWater * 2500)
    IN  (2 * capped + 25000) \div 50000

\* C23: when the recommendation irrigates with precipitation <= 2 and
\* humidity <= 85, waterAmount = round(min(deficit x 8 x p x max(1,
\* temperature / 25), maxDailyWater)) and duration = round(waterAmount / 10),
\* halves rounded up.
WaterAmountFormula ==
    ( /\ calc.valid
      /\ calc.out.shouldIrrigate
      /\ ~JsGt(calc.in.weatherData.precipitation, 20)
      /\ calc.in.weatherData.humidity <= 850 )
    => /\ calc.out.waterAmount = ClaimedWaterAmount(calc.in, calc.out.priority)
       /\ 10 * calc.out.duration - 5 <= calc.out.waterAmount
       /\ calc.out.waterAmount < 10 * calc.out.duration + 5

\* 39.1% under a threshold of 55%: 10.9 x 8 x 1.2 = 104.64, 105 L, and the
\* duration is 10.5 rounded up to 11
WaterAmountWitness ==
    /\ calc.valid
    /\ calc.out.shouldIrrigate
    /\ ~JsGt(calc.in.weatherData.precipitation, 20)
    /\ calc.in.weatherData.humidity <= 850
    /\ calc.out.priority = "medium"
    /\ calc.out.waterAmount = 105
    /\ calc.out.duration = 11

\* the elements of a sequence
Range(seq) == { seq[i] : i \in DOMAIN seq }

\* C24: when the recommendation irrigates, zones holds 1 and 2 iff
\* soilMoisture < 30, holds 3 iff temperature > 32, and is [1] when neither
\* holds; it is never empty and holds only ids of the zone registry.
ZonesByCondition ==
    (calc.valid /\ calc.out.shouldIrrigate) =>
        LET dry == calc.in.sensorData.soilMoisture < 300
            hot == calc.in.sensorData.temperature > 320
            z   == calc.out.zones
        IN  /\ ({1, 2} \subseteq Range(z)) <=> dry
            /\ (3 \in Range(z)) <=> hot
            /\ (~dry /\ ~hot) => z = <<1>>
            /\ z # << >>
            /\ Range(z) \subseteq ZoneIds

\* irrigation at 35% and 24 C (threshold 55%): the default zone
DefaultZoneWitness ==
    /\ calc.valid
    /\ calc.out.shouldIrrigate
    /\ calc.in.sensorData.soilMoisture >= 300
    /\ calc.in.sensorData.temperature <= 320
    /\ calc.out.zones = <<1>>

\* C25: every weather snapshot handed to the decision engine, live or mock,
\* has a defined precipitation that is not negative.
PrecipitationDefined ==
    weatherData.ready =>
        /\ weatherData.current.precipitation.def
        /\ weatherData.current.precipitation.v >= 0

\* C26: every Recommendation that irrigates has waterAmount > 0 and
\* duration > 0, whatever the inputs and the settings reached through
\* updateSettings.
IrrigationHasWater ==
    (calc.valid /\ calc.out.shouldIrrigate) =>
        (calc.out.waterAmount > 0 /\ calc.out.duration > 0)

\* C27: every Recommendation that does not irrigate has priority 'low',
\* also when the rain override vetoed a rule that had fired.
NoIrrigationMeansLowPriority ==
    (calc.valid /\ ~calc.out.shouldIrrigate) => calc.out.priority = "low"

\* C28: the light-rain and the high-humidity reason appear only in the
\* reasons of a Recommendation that irrigates.
ReductionReasonsOnlyWhenIrrigating ==
    calc.valid =>
        ( (\E r \in Range(calc.out.reasons) : r.text \in {LightRainText, HumidityText})
            => calc.out.shouldIrrigate )

\* C30: every 'manual' history entry has a non-empty zones list, a positive
\* duration and a positive waterUsed, and a request whose zones or duration
\* is missing, zero or empty is answered with 400 and appends nothing.
ManualEntriesWellFormed ==
    /\ [] ( \A i \in DOMAIN irrigationHistory :
              irrigationHistory[i].reason = "manual" =>
                /\ irrigationHistory[i].zones # << >>
                /\ irrigationHistory[i].duration > 0
                /\ irrigationHistory[i].waterUsed > 0 )
    /\ [][ \A body \in StartBodies :
             ( /\ ~body.hasZones \/ body.zones = << >> \/ body.duration = 0
               /\ StartIrrigationWith(body) )
             => /\ lastStart'.status = 400
                /\ irrigationHistory' = irrigationHistory ]_vars

\* C29: the simulated telemetry keeps soilMoisture within [20, 80], so every
\* normal-path Recommendation of getRecommendation with priority 'high'
\* contains a heat-stress reason.
HighPriorityHasHeatReason ==
    (Completed /\ IsNormal(result) /\ result.priority = "high") =>
        \E r \in Range(result.reasons) : r.text = HeatStressText

====
